---- MODULE Spec2Model ----
(***************************************************************************)
(* Model of the file-tree generation engine of tackle-box                  *)
(* (src/cookiecutter/generate.py): generate_files, generate_file,          *)
(* render_and_create_dir, ensure_dir_is_templated, is_copy_only_path and   *)
(* _run_hook_from_repo_dir, over a small output file system.               *)
(*                                                                         *)
(* Text (names, paths, file contents, glob patterns) is a sequence of      *)
(* tokens; "{{" and "}}" are the template markers, "/" the path separator, *)
(* "*" and "?" the glob wildcards.  A path on disk is a sequence of        *)
(* components relative to o.output_dir, each component a token sequence.   *)
(* Line-ending detection and logging are left out: no modelled operation   *)
(* branches on them.  Hook scripts are external programs; only their exit  *)
(* status is modelled.                                                     *)
(***************************************************************************)
EXTENDS Integers, Sequences, FiniteSets, TLC

None == "None"

(* find_template found no template directory. *)
NoTemplate == <<>>

(* Largest number of template names or contents that fail to render. *)
MaxFaults == 1

SeqRange(s) == {s[i] : i \in 1..Len(s)}

(***************************************************************************)
(* Text helpers: os.path.join / os.path.normpath on token sequences.       *)
(***************************************************************************)
RECURSIVE Join(_)
Join(p) ==
    IF p = <<>> THEN <<>>
    ELSE IF Len(p) = 1 THEN p[1]
    ELSE p[1] \o <<"/">> \o Join(Tail(p))

FirstSep(s) ==
    IF \E i \in 1..Len(s) : s[i] = "/"
    THEN CHOOSE i \in 1..Len(s) : s[i] = "/" /\ \A j \in 1..(i-1) : s[j] # "/"
    ELSE Len(s) + 1

RECURSIVE Split(_)
Split(s) ==
    IF s = <<>> THEN <<>>
    ELSE LET i == FirstSep(s)
             comp == SubSeq(s, 1, i - 1)
             rest == SubSeq(s, i + 1, Len(s))
         IN (IF comp = <<>> THEN <<>> ELSE <<comp>>) \o Split(rest)

IsPrefix(p, q) == Len(p) <= Len(q) /\ SubSeq(q, 1, Len(p)) = p

(***************************************************************************)
(* The rendering service (jinja2 under StrictEnvironment): from_string     *)
(* compiles the text and raises TemplateSyntaxError on a malformed         *)
(* expression; render substitutes every {{ var }} and raises               *)
(* UndefinedError on a variable the namespace lacks.                       *)
(***************************************************************************)
RECURSIVE SyntaxOK(_)
SyntaxOK(s) ==
    IF s = <<>> THEN TRUE
    ELSE IF Head(s) = "{{"
         THEN /\ Len(s) >= 3
              /\ s[2] \notin {"{{", "}}", "/"}
              /\ s[3] = "}}"
              /\ SyntaxOK(SubSeq(s, 4, Len(s)))
         ELSE SyntaxOK(Tail(s))

RECURSIVE Substitute(_, _)
Substitute(s, ns) ==
    IF s = <<>> THEN [kind |-> "ok", val |-> <<>>]
    ELSE IF Head(s) = "{{"
         THEN IF s[2] \notin DOMAIN ns
              THEN [kind |-> "UndefinedError", val |-> <<s[2]>>]
              ELSE LET r == Substitute(SubSeq(s, 4, Len(s)), ns)
                   IN IF r.kind = "ok"
                      THEN [kind |-> "ok", val |-> ns[s[2]] \o r.val]
                      ELSE r
         ELSE LET r == Substitute(Tail(s), ns)
              IN IF r.kind = "ok"
                 THEN [kind |-> "ok", val |-> <<Head(s)>> \o r.val]
                 ELSE r

Render(s, ns) ==
    IF ~SyntaxOK(s)
    THEN [kind |-> "TemplateSyntaxError", val |-> <<>>]
    ELSE Substitute(s, ns)

(* build_render_context(c): the mapping stored under the context key. *)
build_render_context(input_dict, context_key) == input_dict[context_key]

(***************************************************************************)
(* fnmatch.fnmatch(name, pat): "*" matches any run of tokens (separators   *)
(* included), "?" exactly one token, anything else itself.                 *)
(***************************************************************************)
RECURSIVE fnmatch(_, _)
fnmatch(name, pat) ==
    IF pat = <<>> THEN name = <<>>
    ELSE IF Head(pat) = "*"
         THEN \/ fnmatch(name, Tail(pat))
              \/ (name # <<>> /\ fnmatch(Tail(name), pat))
         ELSE /\ name # <<>>
              /\ (Head(pat) = "?" \/ Head(pat) = Head(name))
              /\ fnmatch(Tail(name), Tail(pat))

(* The default of the context_key parameter of is_copy_only_path. *)
DefaultContextKey == "cookiecutter"

(* Mutant: nothing is ever copy-only. *)
is_copy_only_never(path, context, context_key) == FALSE

(* Mutant: only the first pattern of the list is tried. *)
is_copy_only_first_pattern(path, context, context_key) ==
    IF /\ context_key \in DOMAIN context
       /\ "_copy_without_render" \in DOMAIN context[context_key]
    THEN LET pats == context[context_key]["_copy_without_render"]
         IN pats # <<>> /\ fnmatch(path, pats[1])
    ELSE FALSE

is_copy_only_path(path, context, context_key) ==
    IF /\ context_key \in DOMAIN context
       /\ "_copy_without_render" \in DOMAIN context[context_key]
    THEN LET pats == context[context_key]["_copy_without_render"]
         IN \E i \in 1..Len(pats) : fnmatch(path, pats[i])
    ELSE FALSE

(* Mutant: "or" in place of "and". *)
ensure_dir_is_templated_or(dirname) ==
    ("{{" \in SeqRange(dirname)) \/ ("}}" \in SeqRange(dirname))

ensure_dir_is_templated(dirname) ==
    ("{{" \in SeqRange(dirname)) /\ ("}}" \in SeqRange(dirname))

(***************************************************************************)
(* The output file system: a function from the paths that exist to their   *)
(* entries.  The output root <<>> (o.output_dir) always exists.            *)
(***************************************************************************)
DirEntry == [type |-> "dir", content |-> <<>>, mode |-> 0]
FileEntry(content, mode) == [type |-> "file", content |-> content, mode |-> mode]

Exists(d, p) == p = <<>> \/ p \in DOMAIN d
IsDir(d, p) == p = <<>> \/ (p \in DOMAIN d /\ d[p].type = "dir")

Prefixes(p) == {SubSeq(p, 1, n) : n \in 1..Len(p)}

rmtree(d, p) == [q \in {x \in DOMAIN d : ~IsPrefix(p, x)} |-> d[q]]

make_sure_path_exists(d, p) ==
    [q \in (Prefixes(p) \ DOMAIN d) |-> DirEntry] @@ d

WriteEntry(d, p, e) == (p :> e) @@ d

Parent(p) == SubSeq(p, 1, Len(p) - 1)

(***************************************************************************)
(* The template tree: a function from template-relative paths (<<>> is the *)
(* template root, the "." of os.walk) to nodes.  A directory node lists    *)
(* its sub-directories and files in the order os.walk yields them.         *)
(***************************************************************************)
DirNode(ds, fs) ==
    [type |-> "dir", dirs |-> ds, files |-> fs,
     content |-> <<>>, binary |-> FALSE, mode |-> 0]
FileNode(content, binary, mode) ==
    [type |-> "file", dirs |-> <<>>, files |-> <<>>,
     content |-> content, binary |-> binary, mode |-> mode]

EntryOf(node) ==
    IF node.type = "dir" THEN DirEntry ELSE FileEntry(node.content, node.mode)

(* Names and contents the bounded templates are built from.  The context  *)
(* defines x, y (both "a") and z (empty); u is not defined.               *)
TmplX == <<"{{", "x", "}}">>
TmplY == <<"{{", "y", "}}">>
TmplU == <<"{{", "u", "}}">>
Unclosed == <<"{{", "x">>

RootNames == {TmplX, <<"s">>, Unclosed, TmplU}
D1Names == {TmplX, <<"d">>, TmplU, Unclosed}
(* <<>> in D2Names: the template has no second sub-directory. *)
D2Names == {<<>>, TmplY}
F1Kinds == {[name |-> <<"f">>, binary |-> FALSE],
            [name |-> TmplX \o <<"f">>, binary |-> FALSE],
            [name |-> <<"f">>, binary |-> TRUE]}
F2Names == {<<"g">>, TmplY \o <<"f">>, <<"{{", "z", "}}">>, TmplU, Unclosed}
Contents == {<<"h", "{{", "y", "}}">>, TmplU, Unclosed}

Vars == ("x" :> <<"a">>) @@ ("y" :> <<"a">>) @@ ("z" :> <<>>)

Faulty(text) == Render(text, Vars).kind # "ok"
Bit(b) == IF b THEN 1 ELSE 0

MkTemplate(d1, d2, f1, f2n, f2c, f3c) ==
    (<<>> :> DirNode(IF d2 = <<>> THEN <<d1>> ELSE <<d1, d2>>, <<f1.name, f2n>>))
    @@ (<<d1>> :> DirNode(<<>>, <<<<"h">>>>))
    @@ (<<d1, <<"h">>>> :> FileNode(f3c, FALSE, 420))
    @@ (<<f1.name>> :> FileNode(<<"{{", "x", "}}", "b">>, f1.binary, 493))
    @@ (<<f2n>> :> FileNode(f2c, FALSE, 420))
    @@ (IF d2 = <<>> THEN <<>> ELSE (<<d2>> :> DirNode(<<>>, <<>>)))

Templates ==
    {MkTemplate(d1, d2, f1, f2n, f2c, f3c) :
        <<d1, d2, f1, f2n, f2c, f3c>> \in
            {t \in D1Names \X D2Names \X F1Kinds \X F2Names \X Contents \X Contents :
                /\ t[1] # t[4]
                /\ Bit(Faulty(t[1])) + Bit(Faulty(t[4])) + Bit(Faulty(t[5]))
                     + Bit(Faulty(t[6])) <= MaxFaults}}

DefaultTemplate ==
    MkTemplate(TmplX, <<>>, [name |-> <<"f">>, binary |-> FALSE], <<"g">>,
               <<"h", "{{", "y", "}}">>, <<"h", "{{", "y", "}}">>)

(* _copy_without_render settings: absent, or one of three pattern lists. *)
PatternLists == {<<<<"{{", "*">>>>, <<<<"?">>>>, <<<<"g">>, <<"*", "h">>>>}
Contexts ==
    {[k \in {DefaultContextKey} |-> Vars]}
    \cup {[k \in {DefaultContextKey} |-> Vars @@ ("_copy_without_render" :> pl)] :
             pl \in PatternLists}

(* What the output directory holds before the run. *)
Proj == <<<<"a">>>>
FreshDisk == (<<<<"k">>>> :> DirEntry)
PreDisk ==
    FreshDisk
    @@ (Proj :> DirEntry)
    @@ (Proj \o <<<<"f">>>> :> FileEntry(<<"old">>, 384))
    @@ (Proj \o <<<<"keep">>>> :> FileEntry(<<"mine">>, 384))
Disks == {FreshDisk, PreDisk}

HookResults ==
    {[pre_gen_project |-> "ok", post_gen_project |-> "ok"],
     [pre_gen_project |-> "fail", post_gen_project |-> "ok"],
     [pre_gen_project |-> "ok", post_gen_project |-> "fail"]}

Outputs ==
    [overwrite_if_exists : BOOLEAN, skip_if_file_exists : BOOLEAN,
     accept_hooks : BOOLEAN, infile : {<<>>}]

(* Return values: not returned yet, None, or a path. *)
NoReturn == [kind |-> "unset", path |-> <<>>]
ReturnNone == [kind |-> "None", path |-> <<>>]
ReturnPath(p) == [kind |-> "path", path |-> p]

NoExc == [type |-> None, msg |-> "", path |-> <<>>, cause |-> None]
Exception(type, msg, path, cause) ==
    [type |-> type, msg |-> msg, path |-> path, cause |-> cause]

VARIABLES
    template_dir,   \* s/find_template: unrendered name of the template root, or NoTemplate
    tmpl,           \* the template tree under template_dir
    c,              \* Context: input_dict, context_key, post_gen_hooks
    o,              \* Output: the flags and infile
    hook_result,    \* exit status of each hook script
    disk0,          \* the output file system before the run
    disk,           \* the output file system
    pc,             \* position in generate_files
    project_dir,
    delete_project_on_failure,
    walk_stack,     \* directories os.walk has still to yield
    root,           \* the directory os.walk yielded last
    copy_dirs,      \* copy-only sub-directories still to copy
    dirs,           \* render-eligible sub-directories still to create
    files,          \* files of this level still to process
    o_name,         \* what the local name o is bound to
    exc,            \* the exception generate_files raised
    retval,         \* the value generate_files returned
    log,            \* the calls made so far, in order
    listdir_self,   \* ListdirOperator: path, sort, ignore_hidden_files
    listdir_fs,     \* what os.listdir yields for each directory, in its order
    listdir_ret     \* what ListdirOperator.execute returned

vars == <<template_dir, tmpl, c, o, hook_result, disk0, disk, pc, project_dir,
          delete_project_on_failure, walk_stack, root, copy_dirs, dirs, files,
          o_name, exc, retval, log, listdir_self, listdir_fs, listdir_ret>>

ldvars == <<listdir_self, listdir_fs, listdir_ret>>

inputs == <<template_dir, tmpl, c, hook_result, disk0>>

Ev(ev, arg, path) == [ev |-> ev, arg |-> arg, path |-> path]

(***************************************************************************)
(* ListdirOperator (providers/system/hooks/listdir.py).  File names are    *)
(* sequences of characters; a directory's listing is the sequence          *)
(* os.listdir returns, whose order is arbitrary.                           *)
(***************************************************************************)
MaxNames == 3
ListdirNames == {<<".", "a">>, <<"a">>, <<"b">>}
ListdirDirs == {"dir1", "dir2"}
Listings ==
    {s \in UNION {[1..n -> ListdirNames] : n \in 0..MaxNames} :
        \A i, j \in 1..Len(s) : i # j => s[i] # s[j]}
StrPath(p) == [kind |-> "str", str |-> p, list |-> <<>>]
ListPath(l) == [kind |-> "list", str |-> "", list |-> l]
ListdirPaths ==
    {StrPath(d) : d \in ListdirDirs}
    \cup {ListPath(l) : l \in {<<>>, <<"dir1">>, <<"dir2", "dir1">>}}

NotExecuted == [kind |-> "unset", files |-> <<>>, contents |-> <<>>]
ReturnList(files_) == [kind |-> "list", files |-> files_, contents |-> <<>>]
ReturnDict(contents_) == [kind |-> "dict", files |-> <<>>, contents |-> contents_]

ListdirIdle ==
    /\ listdir_self = [path |-> ListPath(<<>>), sort |-> FALSE,
                       ignore_hidden_files |-> FALSE]
    /\ listdir_fs = [d \in ListdirDirs |-> <<>>]
    /\ listdir_ret = NotExecuted

(* Code points of the characters, and Python's ordering of strings. *)
CodePoint == ("." :> 46) @@ ("a" :> 97) @@ ("b" :> 98)
RECURSIVE StrLess(_, _)
StrLess(s, t) ==
    IF t = <<>> THEN FALSE
    ELSE IF s = <<>> THEN TRUE
    ELSE IF CodePoint[Head(s)] # CodePoint[Head(t)]
         THEN CodePoint[Head(s)] < CodePoint[Head(t)]
         ELSE StrLess(Tail(s), Tail(t))

(* list.sort() *)
RECURSIVE list_sort(_)
list_sort(l) ==
    IF l = <<>> THEN <<>>
    ELSE LET rest == list_sort(Tail(l))
             k == Cardinality({i \in 1..Len(rest) : StrLess(rest[i], Head(l))})
         IN SubSeq(rest, 1, k) \o <<Head(l)>> \o SubSeq(rest, k + 1, Len(rest))

(* f.startswith('.') *)
startswith_dot(f) == f # <<>> /\ Head(f) = "."

NotHidden(f) == ~startswith_dot(f)

Init ==
    /\ \/ /\ template_dir = TmplX
          /\ tmpl \in Templates
       \/ /\ template_dir \in (RootNames \ {TmplX}) \cup {NoTemplate}
          /\ tmpl = DefaultTemplate
    /\ \E input_dict \in Contexts :
          c = [input_dict |-> input_dict, context_key |-> DefaultContextKey,
               post_gen_hooks |-> <<"cmd1", "cmd2">>]
    /\ o \in Outputs
    /\ hook_result \in HookResults
    /\ disk0 \in Disks
    /\ disk = disk0
    /\ pc = "start"
    /\ project_dir = <<>>
    /\ delete_project_on_failure = FALSE
    /\ walk_stack = <<>>
    /\ root = <<>>
    /\ copy_dirs = <<>>
    /\ dirs = <<>>
    /\ files = <<>>
    /\ o_name = "Output"
    /\ exc = NoExc
    /\ retval = NoReturn
    /\ log = <<>>
    /\ ListdirIdle

(***************************************************************************)
(* render_and_create_dir(dirname, c, o): the result carries the outcome,   *)
(* dir_to_create, the "not output_dir_exists" flag and the disk after it.  *)
(***************************************************************************)
DirResult(kind, dir, created, d) ==
    [kind |-> kind, dir |-> dir, created |-> created, disk |-> d]

(* Mutant: the negation of the returned flag dropped. *)
CreatedFlagNotNegated(output_dir_exists) == output_dir_exists

(* Line 164: the second component of the returned pair. *)
CreatedFlag(output_dir_exists) == ~output_dir_exists

(* Mutant: an existing directory accepted whatever the overwrite flag. *)
OverwriteAlwaysAllowed(oo) == TRUE

(* Line 154: an existing directory is accepted only under overwrite. *)
OverwriteAllowed(oo) == oo.overwrite_if_exists

render_and_create_dir(dirname, cc, oo, d) ==
    LET r == Render(Join(dirname), build_render_context(cc.input_dict, cc.context_key))
        dir_to_create == Split(r.val)
        output_dir_exists == Exists(d, dir_to_create)
    IN IF r.kind # "ok" THEN DirResult(r.kind, <<>>, FALSE, d)
       ELSE IF output_dir_exists
            THEN IF OverwriteAllowed(oo)
                 THEN DirResult("ok", dir_to_create, CreatedFlag(output_dir_exists), d)
                 ELSE DirResult("OutputDirExistsException", dir_to_create, FALSE, d)
            ELSE DirResult("ok", dir_to_create, CreatedFlag(output_dir_exists),
                           make_sure_path_exists(d, dir_to_create))

(* Mutant: the project directory removed on every hook failure. *)
_run_hook_always_cleans(hook_name, dir, failed, delete_on_failure, d) ==
    [failed |-> failed,
     disk |-> IF failed THEN rmtree(d, dir) ELSE d,
     log |-> <<Ev("hook", <<hook_name>>, dir)>>
             \o (IF failed THEN <<Ev("rmtree", <<hook_name>>, dir)>> ELSE <<>>)]

(* Mutant: the project directory never removed on hook failure. *)
_run_hook_never_cleans(hook_name, dir, failed, delete_on_failure, d) ==
    [failed |-> failed, disk |-> d, log |-> <<Ev("hook", <<hook_name>>, dir)>>]

(***************************************************************************)
(* _run_hook_from_repo_dir: run_hook fails exactly when the hook script    *)
(* exits unsuccessfully; the project directory is removed on failure only  *)
(* when delete_project_on_failure is passed as true.                       *)
(***************************************************************************)
_run_hook_from_repo_dir(hook_name, dir, failed, delete_on_failure, d) ==
    [failed |-> failed,
     disk |-> IF failed /\ delete_on_failure THEN rmtree(d, dir) ELSE d,
     log |-> <<Ev("hook", <<hook_name>>, dir)>>
             \o (IF failed /\ delete_on_failure
                 THEN <<Ev("rmtree", <<hook_name>>, dir)>> ELSE <<>>)]

(* Mutant: the hooks run whatever o.accept_hooks says. *)
HooksAlwaysAccepted(oo) == TRUE

(* The hooks run only when o.accept_hooks is set (lines 244, 322, 337). *)
HooksAccepted(oo) == oo.accept_hooks

(* Mutant: the flag recomputed from the disk at the time of the post hook. *)
PostHookFlagRecomputed(flag, d, dir) == ~Exists(d, dir)

(* The cleanup flag handed to the post_gen_project hook (line 328). *)
PostHookCleanupFlag(flag, d, dir) == flag

(* Mutant: the except clauses of the walk catch template syntax errors too. *)
WalkCatchesSyntaxToo(kind) == kind \in {"UndefinedError", "TemplateSyntaxError"}

(* The except clauses of the walk catch UndefinedError only (289, 316). *)
WalkCatches(kind) == kind = "UndefinedError"

(* Mutant: the except clauses of the walk forget the rmtree. *)
NoCleanupAfterUndefined(d, dir, flag) == d

(* Cleanup of the except clauses of the walk (290-291, 317-318). *)
CleanupAfterUndefined(d, dir, flag) == IF flag THEN rmtree(d, dir) ELSE d

(***************************************************************************)
(* generate_file(project_dir, c, o): renders the output path, skips an     *)
(* existing directory or (skip_if_file_exists) an existing file, copies a  *)
(* binary file, renders and writes a text file, then copies the mode.      *)
(***************************************************************************)
FileResult(kind, d, lg) == [kind |-> kind, disk |-> d, log |-> lg]

(* Mode bits of a file that open(..., 'w') or shutil.copyfile creates. *)
DefaultMode == 420

(* open(outfile, 'w') / shutil.copyfile: the content is replaced; an       *)
(* existing file keeps its mode, a new one gets the default mode.          *)
open_write(d, p, content) ==
    WriteEntry(d, p, FileEntry(content,
                               IF p \in DOMAIN d /\ d[p].type = "file"
                               THEN d[p].mode ELSE DefaultMode))

(* Mutant: the permission bits are not carried over. *)
copymode_skipped(d, p, mode) == d

(* shutil.copymode(infile, outfile), lines 132 and 306. *)
copymode(d, p, mode) == [d EXCEPT ![p].mode = mode]

(* Mutant: an existing file is skipped whatever skip_if_file_exists says. *)
SkipIgnoresFlag(oo, d, outfile) == Exists(d, outfile)

(* Mutant: an existing file is never skipped. *)
SkipNever(oo, d, outfile) == FALSE

(* Lines 89-91: skip_if_file_exists and os.path.exists(outfile). *)
SkipExisting(oo, d, outfile) == oo.skip_if_file_exists /\ Exists(d, outfile)

generate_file(dir, cc, oo, node, d) ==
    LET render_context == build_render_context(cc.input_dict, cc.context_key)
        r == Render(oo.infile, render_context)
        outfile == dir \o Split(r.val)
        rendered_file == Render(node.content, render_context)
    IN IF r.kind # "ok" THEN FileResult(r.kind, d, <<>>)
       ELSE IF IsDir(d, outfile)
            THEN FileResult("ok", d, <<Ev("skip", oo.infile, outfile)>>)
       ELSE IF SkipExisting(oo, d, outfile)
            THEN FileResult("ok", d, <<Ev("skip", oo.infile, outfile)>>)
       ELSE IF node.binary
            THEN IF ~IsDir(d, Parent(outfile))
                 THEN FileResult("OSError", d, <<>>)
                 ELSE FileResult("ok",
                        copymode(open_write(d, outfile, node.content),
                                 outfile, node.mode),
                        <<Ev("copyfile", oo.infile, outfile),
                          Ev("copymode", oo.infile, outfile)>>)
       ELSE IF rendered_file.kind # "ok"
            THEN FileResult(rendered_file.kind, d, <<>>)
       ELSE IF ~IsDir(d, Parent(outfile))
            THEN FileResult("OSError", d, <<>>)
       ELSE FileResult("ok",
              copymode(open_write(d, outfile, rendered_file.val),
                       outfile, node.mode),
              <<Ev("write", oo.infile, outfile),
                Ev("copymode", oo.infile, outfile)>>)

(* shutil.copytree(indir, outdir): the whole subtree, names unrendered. *)
copytree(d, t, indir, outdir) ==
    [q \in {outdir \o SubSeq(x, Len(indir) + 1, Len(x)) :
              x \in {y \in DOMAIN t : IsPrefix(indir, y) /\ y # indir}}
       |-> EntryOf(t[indir \o SubSeq(q, Len(outdir) + 1, Len(q))])]
    @@ make_sure_path_exists(d, outdir)

(***************************************************************************)
(* generate_files, one action per step of its body.                        *)
(***************************************************************************)
Raise(e) ==
    /\ exc' = e
    /\ pc' = "raised"

walkvars == <<walk_stack, root, copy_dirs, dirs, files>>

(* Line 213-214: find_template and the branch on its result. *)
FindTemplate ==
    /\ pc = "start"
    /\ pc' = IF template_dir # NoTemplate THEN "ensure" ELSE "hooks_only"
    /\ UNCHANGED ldvars
    /\ UNCHANGED <<inputs, o, disk, project_dir, delete_project_on_failure,
                   walkvars, o_name, exc, retval, log>>

(* Lines 215-221: ensure_dir_is_templated on the root's unrendered name. *)
EnsureTemplated ==
    /\ pc = "ensure"
    /\ IF ensure_dir_is_templated(template_dir)
       THEN pc' = "render_root" /\ exc' = exc
       ELSE Raise(Exception("NonTemplatedInputDirException", "", <<>>, None))
    /\ UNCHANGED ldvars
    /\ UNCHANGED <<inputs, o, disk, project_dir, delete_project_on_failure,
                   walkvars, o_name, retval, log>>

(* Mutant: the root's UndefinedError is let through as it is. *)
RootUndefinedRaw(unrendered_dir, cause) == Exception(cause, "", unrendered_dir, None)

(* Lines 225-228: the error raised when the root's name cannot be rendered. *)
RootUndefinedError(unrendered_dir, cause) ==
    Exception("UndefinedVariableInTemplate", "Unable to create project directory",
              unrendered_dir, cause)

(* Lines 222-242: render_and_create_dir of the root; the creation flag. *)
RenderRoot ==
    /\ pc = "render_root"
    /\ LET r == render_and_create_dir(<<template_dir>>, c, o, disk)
       IN IF r.kind = "ok"
          THEN /\ project_dir' = r.dir
               /\ delete_project_on_failure' = r.created
               /\ disk' = r.disk
               /\ log' = log \o (IF r.created THEN <<Ev("mkdir", template_dir, r.dir)>>
                                 ELSE <<>>)
               /\ pc' = "pre_hook"
               /\ exc' = exc
          ELSE /\ IF r.kind = "UndefinedError"
                  THEN Raise(RootUndefinedError(<<template_dir>>, r.kind))
                  ELSE Raise(Exception(r.kind, "directory already exists",
                                       r.dir, None))
               /\ UNCHANGED <<project_dir, delete_project_on_failure, disk, log>>
    /\ UNCHANGED ldvars
    /\ UNCHANGED <<inputs, o, walkvars, o_name, retval>>

(* Mutant: the walk starts without the pre_gen_project hook having run. *)
PreHookSkipped ==
    /\ pc = "pre_hook"
    /\ pc' = "walk"
    /\ walk_stack' = <<<<>>>>
    /\ UNCHANGED ldvars
    /\ UNCHANGED <<inputs, o, disk, log, exc, project_dir, delete_project_on_failure,
                   root, copy_dirs, dirs, files, o_name, retval>>

(* Lines 244-254: the pre_gen_project hook, then the walk starts at ".". *)
PreHook ==
    /\ pc = "pre_hook"
    /\ IF HooksAccepted(o)
       THEN LET h == _run_hook_from_repo_dir("pre_gen_project", project_dir,
                        hook_result.pre_gen_project = "fail",
                        delete_project_on_failure, disk)
            IN /\ disk' = h.disk
               /\ log' = log \o h.log
               /\ IF h.failed
                  THEN /\ Raise(Exception("FailedHookException", "Hook script failed",
                                          <<<<"pre_gen_project">>>>, None))
                       /\ UNCHANGED walk_stack
                  ELSE /\ pc' = "walk"
                       /\ walk_stack' = <<<<>>>>
                       /\ exc' = exc
       ELSE /\ pc' = "walk"
            /\ walk_stack' = <<<<>>>>
            /\ UNCHANGED <<disk, log, exc>>
    /\ UNCHANGED ldvars
    /\ UNCHANGED <<inputs, o, project_dir, delete_project_on_failure,
                   root, copy_dirs, dirs, files, o_name, retval>>

(* Mutant: os.walk descends into every sub-directory. *)
WalkIntoAll(all_dirs, render_dirs) == all_dirs

(* Line 284, dirs[:] = render_dirs: what os.walk will descend into. *)
WalkInto(all_dirs, render_dirs) == render_dirs

(* Lines 256-271 and 284: os.walk yields the next directory; its           *)
(* sub-directories are split into copy_dirs and render_dirs, and os.walk   *)
(* will descend into render_dirs only.                                     *)
WalkLevel ==
    /\ pc = "walk"
    /\ copy_dirs = <<>> /\ dirs = <<>> /\ files = <<>>
    /\ IF walk_stack = <<>>
       THEN /\ pc' = "post_hook"
            /\ UNCHANGED <<walkvars, log>>
       ELSE LET rt == Head(walk_stack)
                IsCopy(dn) == is_copy_only_path(Join(rt \o <<dn>>), c.input_dict,
                                                DefaultContextKey)
                IsRender(dn) == ~IsCopy(dn)
                cds == SelectSeq(tmpl[rt].dirs, IsCopy)
                rds == SelectSeq(tmpl[rt].dirs, IsRender)
            IN /\ root' = rt
               /\ copy_dirs' = cds
               /\ dirs' = rds
               /\ files' = tmpl[rt].files
               /\ walk_stack' =
                      LET into == WalkInto(tmpl[rt].dirs, rds)
                      IN [i \in 1..Len(into) |-> rt \o <<into[i]>>] \o Tail(walk_stack)
               /\ log' = log \o <<Ev("walk", Join(rt), project_dir \o rt)>>
               /\ pc' = "walk"
    /\ UNCHANGED ldvars
    /\ UNCHANGED <<inputs, o, disk, project_dir, delete_project_on_failure,
                   o_name, exc, retval>>

(* Lines 273-280: copy one copy-only directory as a whole. *)
CopyDir ==
    /\ pc = "walk"
    /\ copy_dirs # <<>>
    /\ LET indir == root \o <<Head(copy_dirs)>>
           r == Render(Join(project_dir \o indir),
                       build_render_context(c.input_dict, c.context_key))
           outdir == Split(r.val)
       IN IF r.kind # "ok"
          THEN /\ Raise(Exception(r.kind, "", indir, None))
               /\ UNCHANGED <<disk, log, copy_dirs>>
          ELSE IF Exists(disk, outdir)
          THEN /\ Raise(Exception("FileExistsError", "", outdir, None))
               /\ UNCHANGED <<disk, log, copy_dirs>>
          ELSE /\ disk' = copytree(disk, tmpl, indir, outdir)
               /\ log' = log \o <<Ev("copytree", Join(indir), outdir)>>
               /\ copy_dirs' = Tail(copy_dirs)
               /\ UNCHANGED <<pc, exc>>
    /\ UNCHANGED ldvars
    /\ UNCHANGED <<inputs, o, project_dir, delete_project_on_failure,
                   walk_stack, root, dirs, files, o_name, retval>>

(* Lines 285-294: render and create one render-eligible directory. *)
RenderDir ==
    /\ pc = "walk"
    /\ copy_dirs = <<>> /\ dirs # <<>>
    /\ LET unrendered_dir == project_dir \o root \o <<Head(dirs)>>
           r == render_and_create_dir(unrendered_dir, c, o, disk)
       IN IF r.kind = "ok"
          THEN /\ disk' = r.disk
               /\ log' = log \o (IF r.created
                                 THEN <<Ev("mkdir", Join(root \o <<Head(dirs)>>), r.dir)>>
                                 ELSE <<>>)
               /\ dirs' = Tail(dirs)
               /\ UNCHANGED <<pc, exc>>
          ELSE IF WalkCatches(r.kind)
          THEN /\ disk' = CleanupAfterUndefined(disk, project_dir,
                                                delete_project_on_failure)
               /\ log' = log \o (IF delete_project_on_failure
                                 THEN <<Ev("rmtree", Join(root \o <<Head(dirs)>>),
                                           project_dir)>>
                                 ELSE <<>>)
               /\ Raise(Exception("UndefinedVariableInTemplate",
                                  "Unable to create directory",
                                  unrendered_dir, r.kind))
               /\ UNCHANGED dirs
          ELSE /\ Raise(Exception(r.kind, "directory already exists", r.dir, None))
               /\ UNCHANGED <<disk, log, dirs>>
    /\ UNCHANGED ldvars
    /\ UNCHANGED <<inputs, o, project_dir, delete_project_on_failure,
                   walk_stack, root, copy_dirs, files, o_name, retval>>

(* Lines 296-320: one file of the level, copied verbatim or generated. *)
GenFile ==
    /\ pc = "walk"
    /\ copy_dirs = <<>> /\ dirs = <<>> /\ files # <<>>
    /\ LET infile == Join(root \o <<Head(files)>>)
           node == tmpl[root \o <<Head(files)>>]
           oo == [o EXCEPT !.infile = infile]
       IN /\ o' = oo
          /\ IF is_copy_only_path(infile, c.input_dict, DefaultContextKey)
             THEN LET r == Render(infile,
                              build_render_context(c.input_dict, c.context_key))
                      outfile == project_dir \o Split(r.val)
                  IN IF r.kind # "ok"
                     THEN /\ Raise(Exception(r.kind, "", Split(infile), None))
                          /\ UNCHANGED <<disk, log, files>>
                     ELSE IF IsDir(disk, outfile) \/ ~IsDir(disk, Parent(outfile))
                     THEN /\ Raise(Exception("OSError", "", outfile, None))
                          /\ UNCHANGED <<disk, log, files>>
                     ELSE /\ disk' = copymode(open_write(disk, outfile, node.content),
                                            outfile, node.mode)
                          /\ log' = log \o <<Ev("copy_only", infile, outfile),
                                             Ev("copyfile", infile, outfile),
                                             Ev("copymode", infile, outfile)>>
                          /\ files' = Tail(files)
                          /\ UNCHANGED <<pc, exc>>
             ELSE LET g == generate_file(project_dir, c, oo, node, disk)
                  IN IF g.kind = "ok"
                     THEN /\ disk' = g.disk
                          /\ log' = log \o g.log
                          /\ files' = Tail(files)
                          /\ UNCHANGED <<pc, exc>>
                     ELSE IF WalkCatches(g.kind)
                     THEN /\ disk' = CleanupAfterUndefined(g.disk, project_dir,
                                                           delete_project_on_failure)
                          /\ log' = log \o (IF delete_project_on_failure
                                            THEN <<Ev("rmtree", infile, project_dir)>>
                                            ELSE <<>>)
                          /\ Raise(Exception("UndefinedVariableInTemplate",
                                             "Unable to create file",
                                             Split(infile), g.kind))
                          /\ UNCHANGED files
                     ELSE /\ Raise(Exception(g.kind, "", Split(infile), None))
                          /\ disk' = g.disk
                          /\ UNCHANGED <<log, files>>
    /\ UNCHANGED ldvars
    /\ UNCHANGED <<inputs, project_dir, delete_project_on_failure,
                   walk_stack, root, copy_dirs, dirs, o_name, retval>>

(* Lines 322-329: the post_gen_project hook.  With accept_hooks unset the  *)
(* if-block is skipped and the function body ends without a return        *)
(* statement.                                                              *)
PostHook ==
    /\ pc = "post_hook"
    /\ IF HooksAccepted(o)
       THEN LET h == _run_hook_from_repo_dir("post_gen_project", project_dir,
                        hook_result.post_gen_project = "fail",
                        PostHookCleanupFlag(delete_project_on_failure, disk,
                                            project_dir),
                        disk)
            IN /\ disk' = h.disk
               /\ log' = log \o h.log
               /\ IF h.failed
                  THEN Raise(Exception("FailedHookException", "Hook script failed",
                                       <<<<"post_gen_project">>>>, None))
                  ELSE pc' = "post_gen_hooks" /\ exc' = exc
               /\ UNCHANGED retval
       ELSE /\ pc' = "returned"
            /\ retval' = ReturnNone
            /\ UNCHANGED <<disk, log, exc>>
    /\ UNCHANGED ldvars
    /\ UNCHANGED <<inputs, o, project_dir, delete_project_on_failure,
                   walkvars, o_name>>

(* "for o in c.post_gen_hooks: o.execute": the loop rebinds the name o to  *)
(* each operator and evaluates the attribute execute without calling it.   *)
OperatorLoop(name, hooks) == IF hooks = <<>> THEN name ELSE hooks[Len(hooks)]

(* The calls the loop body "o.execute" makes: the expression looks the     *)
(* bound method up and drops it; without parentheses nothing is called.    *)
ExecuteCalls(hooks) == <<>>

(* Lines 331-335: the deferred operators, then return project_dir. *)
PostGenHooks ==
    /\ pc = "post_gen_hooks"
    /\ o_name' = OperatorLoop(o_name, c.post_gen_hooks)
    /\ retval' = ReturnPath(project_dir)
    /\ pc' = "returned"
    /\ log' = log \o ExecuteCalls(c.post_gen_hooks)
    /\ UNCHANGED ldvars
    /\ UNCHANGED <<inputs, o, disk, project_dir, delete_project_on_failure,
                   walkvars, exc>>

(* Mutant: the hooks-only branch asks for cleanup on failure. *)
HooksOnlyCleanupRequested == TRUE

(* Line 342: the delete_project_on_failure argument of the hooks-only call. *)
HooksOnlyCleanupFlag == FALSE

(* Lines 337-344: no template; post_gen_project runs against ".". *)
HooksOnly ==
    /\ pc = "hooks_only"
    /\ IF HooksAccepted(o)
       THEN LET h == _run_hook_from_repo_dir("post_gen_project", <<<<".">>>>,
                        hook_result.post_gen_project = "fail",
                        HooksOnlyCleanupFlag, disk)
            IN /\ disk' = h.disk
               /\ log' = log \o h.log
               /\ IF h.failed
                  THEN Raise(Exception("FailedHookException", "Hook script failed",
                                       <<<<"post_gen_project">>>>, None))
                  ELSE pc' = "hooks_only_ops" /\ exc' = exc
       ELSE /\ pc' = "hooks_only_ops"
            /\ UNCHANGED <<disk, log, exc>>
    /\ UNCHANGED ldvars
    /\ UNCHANGED <<inputs, o, project_dir, delete_project_on_failure,
                   walkvars, o_name, retval>>

(* Lines 346-350: the deferred operators, then return None. *)
HooksOnlyReturn ==
    /\ pc = "hooks_only_ops"
    /\ o_name' = OperatorLoop(o_name, c.post_gen_hooks)
    /\ retval' = ReturnNone
    /\ pc' = "returned"
    /\ log' = log \o ExecuteCalls(c.post_gen_hooks)
    /\ UNCHANGED ldvars
    /\ UNCHANGED <<inputs, o, disk, project_dir, delete_project_on_failure,
                   walkvars, exc>>

Next ==
    \/ FindTemplate
    \/ EnsureTemplated
    \/ RenderRoot
    \/ PreHook
    \/ WalkLevel
    \/ CopyDir
    \/ RenderDir
    \/ GenFile
    \/ PostHook
    \/ PostGenHooks
    \/ HooksOnly
    \/ HooksOnlyReturn

Spec == Init /\ [][Next]_vars

(***************************************************************************)
(* The caller invokes generate_files a second time with the same template, *)
(* context and settings, over what the first call left in the output       *)
(* directory.  Both overwrite_if_exists and skip_if_file_exists are set:   *)
(* without the former the second call stops at the existing project        *)
(* directory.  The log keeps the first call's events before the marker.    *)
(***************************************************************************)
Rerun ==
    /\ pc = "returned"
    /\ template_dir # NoTemplate
    /\ \A i \in 1..Len(log) : log[i].ev # "rerun"
    /\ o.overwrite_if_exists /\ o.skip_if_file_exists
    /\ disk0' = disk
    /\ pc' = "start"
    /\ o' = [o EXCEPT !.infile = <<>>]
    /\ project_dir' = <<>>
    /\ delete_project_on_failure' = FALSE
    /\ walk_stack' = <<>>
    /\ root' = <<>>
    /\ copy_dirs' = <<>>
    /\ dirs' = <<>>
    /\ files' = <<>>
    /\ o_name' = "Output"
    /\ exc' = NoExc
    /\ retval' = NoReturn
    /\ log' = log \o <<Ev("rerun", <<>>, <<>>)>>
    /\ UNCHANGED <<template_dir, tmpl, c, hook_result, disk>>
    /\ UNCHANGED ldvars

NextRerun ==
    \/ Next
    \/ Rerun

SpecRerun == Init /\ [][NextRerun]_vars

(***************************************************************************)
(* Runs whose configured context key need not be the default one: the      *)
(* whole context, _copy_without_render included, sits under c.context_key. *)
(***************************************************************************)
OtherContextKey == "tackle"
ContextKeys == {DefaultContextKey, OtherContextKey}
ContextsUnder(key) ==
    {[k \in {key} |-> Vars]}
    \cup {[k \in {key} |-> Vars @@ ("_copy_without_render" :> pl)] :
             pl \in PatternLists}

InitKey ==
    /\ \/ /\ template_dir = TmplX
          /\ tmpl \in Templates
       \/ /\ template_dir \in (RootNames \ {TmplX}) \cup {NoTemplate}
          /\ tmpl = DefaultTemplate
    /\ \E key \in ContextKeys :
          \E input_dict \in ContextsUnder(key) :
              c = [input_dict |-> input_dict, context_key |-> key,
                   post_gen_hooks |-> <<"cmd1", "cmd2">>]
    /\ o \in Outputs
    /\ hook_result \in HookResults
    /\ disk0 \in Disks
    /\ disk = disk0
    /\ pc = "start"
    /\ project_dir = <<>>
    /\ delete_project_on_failure = FALSE
    /\ walk_stack = <<>>
    /\ root = <<>>
    /\ copy_dirs = <<>>
    /\ dirs = <<>>
    /\ files = <<>>
    /\ o_name = "Output"
    /\ exc = NoExc
    /\ retval = NoReturn
    /\ log = <<>>
    /\ ListdirIdle

SpecKey == InitKey /\ [][Next]_vars

(***************************************************************************)
(* ListdirOperator.execute (listdir.py 33-49) as a state machine of its    *)
(* own: the operator's fields and the directories are the inputs, and the  *)
(* variables of generate_files stay at rest.                               *)
(***************************************************************************)
GenerateAtRest ==
    /\ template_dir = NoTemplate
    /\ tmpl = DefaultTemplate
    /\ c = [input_dict |-> [k \in {DefaultContextKey} |-> Vars],
            context_key |-> DefaultContextKey,
            post_gen_hooks |-> <<>>]
    /\ o = [overwrite_if_exists |-> FALSE, skip_if_file_exists |-> FALSE,
            accept_hooks |-> FALSE, infile |-> <<>>]
    /\ hook_result = [pre_gen_project |-> "ok", post_gen_project |-> "ok"]
    /\ disk0 = FreshDisk
    /\ disk = FreshDisk
    /\ pc = "start"
    /\ project_dir = <<>>
    /\ delete_project_on_failure = FALSE
    /\ walk_stack = <<>>
    /\ root = <<>>
    /\ copy_dirs = <<>>
    /\ dirs = <<>>
    /\ files = <<>>
    /\ o_name = "Output"
    /\ exc = NoExc
    /\ retval = NoReturn
    /\ log = <<>>

InitListdir ==
    /\ GenerateAtRest
    /\ listdir_self \in [path : ListdirPaths, sort : BOOLEAN,
                         ignore_hidden_files : BOOLEAN]
    /\ listdir_fs \in [ListdirDirs -> Listings]
    /\ listdir_ret = NotExecuted

ListdirOperator_execute ==
    /\ listdir_ret = NotExecuted
    /\ listdir_ret' =
          IF listdir_self.path.kind = "str"
          THEN LET listed == listdir_fs[listdir_self.path.str]
                   files_ == IF listdir_self.sort THEN list_sort(listed) ELSE listed
               IN IF listdir_self.ignore_hidden_files
                  THEN ReturnList(SelectSeq(files_, NotHidden))
                  ELSE ReturnList(files_)
          ELSE ReturnDict([i \in SeqRange(listdir_self.path.list) |->
                              IF listdir_self.sort THEN list_sort(listdir_fs[i])
                              ELSE listdir_fs[i]])
    /\ UNCHANGED <<listdir_self, listdir_fs>>
    /\ UNCHANGED <<inputs, o, disk, pc, project_dir, delete_project_on_failure,
                   walkvars, o_name, exc, retval, log>>

NextListdir == ListdirOperator_execute

SpecListdir == InitListdir /\ [][NextListdir]_vars

(***************************************************************************)
(* Vocabulary of the properties.                                           *)
(***************************************************************************)
Returned == pc = "returned"
Failed == pc = "raised"
HasTemplate == template_dir # NoTemplate
RootRendered == project_dir # <<>>
CreatedByRun == RootRendered /\ project_dir \notin DOMAIN disk0
PreExisting == RootRendered /\ project_dir \in DOMAIN disk0
ProjectGone == \A q \in DOMAIN disk : ~IsPrefix(project_dir, q)

LogEvents(kinds) == {i \in 1..Len(log) : log[i].ev \in kinds}
WrittenPaths == {log[i].path : i \in LogEvents({"mkdir", "write", "copyfile", "copytree"})}
FileWrites == LogEvents({"write", "copyfile"})
NoCleanup == LogEvents({"rmtree"}) = {}

(* An undefined-variable / syntax error was raised, converted or not. *)
UndefinedRaised == exc.type = "UndefinedError" \/ exc.cause = "UndefinedError"
SyntaxRaised == exc.type = "TemplateSyntaxError" \/ exc.cause = "TemplateSyntaxError"

(* The step that failed: the entry at the head of the level's work lists. *)
FailedAtCopyDir == Failed /\ copy_dirs # <<>>
FailedAtRenderDir == Failed /\ copy_dirs = <<>> /\ dirs # <<>>
FailedAtFile == Failed /\ copy_dirs = <<>> /\ dirs = <<>> /\ files # <<>>
FailedFileRenderEligible ==
    /\ FailedAtFile
    /\ ~is_copy_only_path(Join(root \o <<Head(files)>>), c.input_dict,
                          DefaultContextKey)

(* The template entries a complete walk handles: those whose ancestors are *)
(* all render-eligible.  Each leaves an event carrying its template path.  *)
RenderEligible(t) ==
    \A n \in 1..Len(t) :
        ~is_copy_only_path(Join(SubSeq(t, 1, n)), c.input_dict, DefaultContextKey)
Handled(t) ==
    \E i \in 1..Len(log) :
        /\ log[i].arg = Join(t)
        /\ log[i].ev \in (IF tmpl[t].type = "file"
                          THEN {"write", "copyfile", "skip"}
                          ELSE IF RenderEligible(t) THEN {"walk"} ELSE {"copytree"})
Complete ==
    \A t \in DOMAIN tmpl \ {<<>>} : RenderEligible(Parent(t)) => Handled(t)

(***************************************************************************)
(* C1: when the project directory was created by this run and rendering    *)
(* the name of a render-eligible sub-directory, or the path or content of  *)
(* a render-eligible file, raised an undefined-variable error, then after  *)
(* the failure nothing of the project directory exists any more.           *)
(***************************************************************************)
C1_UndefinedRemovesNewProject ==
    (/\ CreatedByRun
     /\ UndefinedRaised
     /\ (FailedAtRenderDir \/ FailedFileRenderEligible))
    => ProjectGone

C1_Witness ==
    /\ CreatedByRun /\ UndefinedRaised /\ FailedFileRenderEligible
    /\ root # <<>>
    /\ FileWrites # {}
    /\ ProjectGone

(***************************************************************************)
(* C2: when the project directory existed before the run, it exists in     *)
(* every state of the run, failures included, the generator never calls    *)
(* rmtree, and every entry that existed before is still there, unchanged   *)
(* unless the walk wrote that file.                                        *)
(***************************************************************************)
C2_PreExistingProjectKept ==
    PreExisting =>
        /\ project_dir \in DOMAIN disk
        /\ NoCleanup
        /\ \A q \in DOMAIN disk0 :
              /\ q \in DOMAIN disk
              /\ (disk[q] = disk0[q] \/ q \in {log[i].path : i \in FileWrites})

C2_Witness ==
    /\ PreExisting /\ Failed
    /\ exc.type = "UndefinedVariableInTemplate"
    /\ \E q \in DOMAIN disk0 : disk[q] # disk0[q]
    /\ Proj \o <<<<"keep">>>> \in DOMAIN disk

(***************************************************************************)
(* C3: when hooks are accepted and the pre_gen_project hook fails, the     *)
(* call fails with FailedHookException, no template entry was walked or    *)
(* written, and the project directory is gone iff this run created it.     *)
(***************************************************************************)
C3_PreHookFailure ==
    (/\ Failed /\ RootRendered
     /\ o.accept_hooks /\ hook_result.pre_gen_project = "fail")
    => /\ exc.type = "FailedHookException"
       /\ LogEvents({"walk", "write", "copyfile", "copytree", "skip"}) = {}
       /\ (project_dir \notin DOMAIN disk) <=> CreatedByRun
       /\ disk = disk0

C3_Witness ==
    /\ Failed /\ CreatedByRun
    /\ exc.path = <<<<"pre_gen_project">>>>
    /\ project_dir \notin DOMAIN disk

(***************************************************************************)
(* C4: the cleanup flag always equals "the root directory did not exist    *)
(* before the run" from the moment the root is rendered, and when the      *)
(* post_gen_project hook fails after the walk the project directory is     *)
(* gone iff that flag is true.                                             *)
(***************************************************************************)
PostHookFailed ==
    /\ Failed /\ RootRendered
    /\ exc.type = "FailedHookException"
    /\ exc.path = <<<<"post_gen_project">>>>

C4_PostHookUsesOriginalFlag ==
    /\ RootRendered => (delete_project_on_failure <=> project_dir \notin DOMAIN disk0)
    /\ PostHookFailed =>
          /\ Complete
          /\ (project_dir \notin DOMAIN disk) <=> delete_project_on_failure

C4_Witness ==
    /\ PostHookFailed
    /\ delete_project_on_failure
    /\ FileWrites # {}
    /\ ProjectGone

(***************************************************************************)
(* C5: a template syntax error raised while rendering a file's path or     *)
(* content leaves generate_files as TemplateSyntaxError, rmtree is never   *)
(* called, and everything that existed or was written before the error,    *)
(* the project directory included, is still on disk.                       *)
(***************************************************************************)
C5_SyntaxErrorKeepsOutput ==
    (FailedAtFile /\ SyntaxRaised)
    => /\ exc.type = "TemplateSyntaxError"
       /\ NoCleanup
       /\ project_dir \in DOMAIN disk
       /\ WrittenPaths \subseteq DOMAIN disk
       /\ DOMAIN disk0 \subseteq DOMAIN disk

C5_Witness ==
    /\ FailedAtFile /\ SyntaxRaised
    /\ CreatedByRun
    /\ FileWrites # {}
    /\ project_dir \in DOMAIN disk

(***************************************************************************)
(* C6 as stated: after generate_files has returned a complete tree was     *)
(* handled, and after it has raised, a project directory that did not      *)
(* exist before leaves the disk as it was before the run.                  *)
(***************************************************************************)
C6_AllOrNothing ==
    /\ (Returned /\ HasTemplate) => Complete
    /\ (Failed /\ ~PreExisting) => disk = disk0

(***************************************************************************)
(* C6 amended: a return means the whole tree was handled; after            *)
(* UndefinedVariableInTemplate, FailedHookException or                     *)
(* NonTemplatedInputDirException, or a failure before the project          *)
(* directory was made, a run that created the project directory leaves     *)
(* the disk as it was; every other error leaves all written output.        *)
(***************************************************************************)
CleanupErrors ==
    {"UndefinedVariableInTemplate", "FailedHookException",
     "NonTemplatedInputDirException"}

C6_AllOrNothingAmended ==
    /\ (Returned /\ HasTemplate) => Complete
    /\ (Failed /\ ~PreExisting /\ (exc.type \in CleanupErrors \/ ~RootRendered))
          => disk = disk0
    /\ (Failed /\ RootRendered /\ exc.type \notin CleanupErrors)
          => /\ NoCleanup
             /\ WrittenPaths \subseteq DOMAIN disk

C6_Witness ==
    /\ Failed /\ CreatedByRun
    /\ exc.type = "FailedHookException"
    /\ FileWrites # {}
    /\ Complete
    /\ disk = disk0

(***************************************************************************)
(* C7: when the template root's name lacks "{{" or lacks "}}",             *)
(* generate_files gets no further than raising                             *)
(* NonTemplatedInputDirException: the disk is as before the run, no hook   *)
(* has run and nothing was cleaned up.                                     *)
(***************************************************************************)
NotTemplated ==
    /\ HasTemplate
    /\ ~({"{{", "}}"} \subseteq SeqRange(template_dir))

C7_NonTemplatedRootFailsFirst ==
    NotTemplated =>
        /\ pc \in {"start", "ensure", "raised"}
        /\ Failed => exc.type = "NonTemplatedInputDirException"
        /\ disk = disk0
        /\ log = <<>>

C7_Witness ==
    /\ NotTemplated /\ Failed
    /\ "{{" \in SeqRange(template_dir)
    /\ exc.type = "NonTemplatedInputDirException"
    /\ o.accept_hooks

(***************************************************************************)
(* C8: without overwrite_if_exists every directory the run passed through  *)
(* render_and_create_dir was created by that call (the root did not exist  *)
(* before, every walked sub-directory has its mkdir); and an               *)
(* OutputDirExistsException is raised only without overwrite, names the    *)
(* existing path, and leaves the disk alone: nothing cleaned up, all       *)
(* earlier output and all prior entries present, and for the root no hook  *)
(* run and nothing written.                                                *)
(***************************************************************************)
WalkedSubdirs == {log[i].arg : i \in {j \in LogEvents({"walk"}) : log[j].arg # <<>>}}
MadeDirs == {log[i].arg : i \in LogEvents({"mkdir"})}

C8_ExistingDirNeedsOverwrite ==
    /\ ~o.overwrite_if_exists =>
          /\ RootRendered => project_dir \notin DOMAIN disk0
          /\ WalkedSubdirs \subseteq MadeDirs
    /\ (Failed /\ exc.type = "OutputDirExistsException") =>
          /\ ~o.overwrite_if_exists
          /\ exc.path \in DOMAIN disk
          /\ NoCleanup
          /\ WrittenPaths \subseteq DOMAIN disk
          /\ \A q \in DOMAIN disk0 : q \in DOMAIN disk /\ disk[q] = disk0[q]
          /\ ~RootRendered => (disk = disk0 /\ log = <<>>)

C8_Witness ==
    /\ Failed /\ exc.type = "OutputDirExistsException"
    /\ RootRendered
    /\ Len(exc.path) = 2
    /\ exc.path \in WrittenPaths

(***************************************************************************)
(* C9: whenever generate_files returns and a template tree was found, the  *)
(* value is the project directory; it is None only when none was found.    *)
(***************************************************************************)
C9_ReturnsProjectPath ==
    Returned =>
        IF HasTemplate THEN retval = ReturnPath(project_dir)
        ELSE retval = ReturnNone

(***************************************************************************)
(* C10: with accept_hooks unset no hook is ever invoked, with or without   *)
(* a template tree, and a run that returns has handled the whole tree.     *)
(***************************************************************************)
C10_NoHooksWhenNotAccepted ==
    ~o.accept_hooks =>
        /\ LogEvents({"hook"}) = {}
        /\ (Returned /\ HasTemplate) => Complete

C10_Witness ==
    /\ ~o.accept_hooks
    /\ Returned /\ HasTemplate
    /\ hook_result.pre_gen_project = "fail"
    /\ Complete
    /\ LogEvents({"hook"}) = {}

(***************************************************************************)
(* C11: with a template root and hooks accepted, the phases are ordered:   *)
(* each hook runs at most once, the project directory exists when the      *)
(* pre_gen_project hook runs, every walk event (directory visited or made, *)
(* file written, copied or skipped) comes after the pre_gen_project hook   *)
(* and before the post_gen_project hook, and a run that returns has run    *)
(* both hooks successfully around a complete walk.                         *)
(***************************************************************************)
HookAt(name) == {i \in LogEvents({"hook"}) : log[i].arg = <<name>>}
EntryEvents ==
    {i \in LogEvents({"walk", "mkdir", "write", "copy_only", "copyfile",
                      "copymode", "copytree", "skip"}) :
        ~(log[i].ev = "mkdir" /\ log[i].path = project_dir)}
RootMadeBefore(i) ==
    \/ PreExisting
    \/ \E k \in 1..(i - 1) : log[k].ev = "mkdir" /\ log[k].path = project_dir

C11_PhaseOrder ==
    (HasTemplate /\ o.accept_hooks) =>
        /\ Cardinality(HookAt("pre_gen_project")) <= 1
        /\ Cardinality(HookAt("post_gen_project")) <= 1
        /\ \A i \in HookAt("pre_gen_project") :
              /\ RootMadeBefore(i)
              /\ log[i].path = project_dir
        /\ \A e \in EntryEvents : \E i \in HookAt("pre_gen_project") : i < e
        /\ \A e \in EntryEvents : \A j \in HookAt("post_gen_project") : e < j
        /\ \A i \in HookAt("pre_gen_project") :
              \A j \in HookAt("post_gen_project") : i < j
        /\ Returned =>
              /\ HookAt("pre_gen_project") # {}
              /\ HookAt("post_gen_project") # {}
              /\ hook_result.pre_gen_project = "ok"
              /\ hook_result.post_gen_project = "ok"
              /\ Complete
              /\ project_dir \in DOMAIN disk

C11_Witness ==
    /\ Returned /\ HasTemplate /\ o.accept_hooks
    /\ CreatedByRun
    /\ HookAt("pre_gen_project") = {2}
    /\ HookAt("post_gen_project") = {Len(log)}
    /\ LogEvents({"write"}) # {}
    /\ LogEvents({"copytree"}) # {}
    /\ \E e \in EntryEvents : log[e].ev = "mkdir"

(***************************************************************************)
(* C12: when no template root is found and hooks are accepted, a run that  *)
(* returns has invoked both pre_gen_project and post_gen_project, each     *)
(* with "." as the project directory.                                      *)
(***************************************************************************)
C12_HooksOnlyRunsBothHooks ==
    (~HasTemplate /\ o.accept_hooks /\ Returned) =>
        /\ HookAt("pre_gen_project") # {}
        /\ HookAt("post_gen_project") # {}
        /\ \A i \in LogEvents({"hook"}) : log[i].path = <<<<".">>>>

(***************************************************************************)
(* C13: without a template root generate_files never changes the output    *)
(* file system: no directory is made, nothing is written and rmtree is     *)
(* never called, also when the hook fails; the only error is the hook's    *)
(* FailedHookException, and a run whose hook did not fail returns None.    *)
(***************************************************************************)
C13_HooksOnlyTouchesNothing ==
    ~HasTemplate =>
        /\ disk = disk0
        /\ project_dir = <<>>
        /\ NoCleanup
        /\ LogEvents({"mkdir", "walk", "write", "copy_only", "copyfile",
                      "copymode", "copytree", "skip"}) = {}
        /\ Returned => retval = ReturnNone
        /\ Failed => /\ exc.type = "FailedHookException"
                     /\ o.accept_hooks
                     /\ hook_result.post_gen_project = "fail"
        /\ (~o.accept_hooks \/ hook_result.post_gen_project = "ok") => ~Failed

C13_Witness ==
    /\ ~HasTemplate /\ Failed
    /\ exc.type = "FailedHookException"
    /\ HookAt("post_gen_project") = {1}
    /\ disk0 = PreDisk /\ disk = disk0

(***************************************************************************)
(* Glob matching stated without recursion, for patterns with at most one   *)
(* "*": the tokens before the star match the head of the name, the tokens  *)
(* after it match the tail, and the star takes what lies between.          *)
(***************************************************************************)
TokenMatches(n, p) == p = "?" \/ p = n
StarsOf(pat) == {i \in 1..Len(pat) : pat[i] = "*"}
GlobMatches(name, pat) ==
    IF StarsOf(pat) = {}
    THEN /\ Len(name) = Len(pat)
         /\ \A i \in 1..Len(pat) : TokenMatches(name[i], pat[i])
    ELSE LET s == CHOOSE i \in StarsOf(pat) : TRUE
             post == Len(pat) - s
         IN /\ Cardinality(StarsOf(pat)) = 1
            /\ Len(name) >= Len(pat) - 1
            /\ \A i \in 1..(s - 1) : TokenMatches(name[i], pat[i])
            /\ \A k \in 1..post : TokenMatches(name[Len(name) - post + k], pat[s + k])

CopyPatterns ==
    IF "_copy_without_render" \in DOMAIN c.input_dict[DefaultContextKey]
    THEN SeqRange(c.input_dict[DefaultContextKey]["_copy_without_render"])
    ELSE {}
ShouldCopy(path) == \E p \in CopyPatterns : GlobMatches(path, p)

RenderNs == c.input_dict[c.context_key]
LastEvents(kinds) ==
    /\ Len(log) >= Len(kinds)
    /\ \A k \in 1..Len(kinds) : log[Len(log) - Len(kinds) + k].ev = kinds[k]
LastArg == log[Len(log)].arg
LastPath == log[Len(log)].path

Ancestors(t) == {SubSeq(t, 1, n) : n \in 1..(Len(t) - 1)}
OutDir(t) == Split(Render(Join(project_dir \o t), RenderNs).val)

C16_NoDescentIntoCopyOnly ==
    /\ \A i \in LogEvents({"walk"}) :
          log[i].arg # <<>> =>
              /\ ~ShouldCopy(log[i].arg)
              /\ \/ \E j \in 1..(i - 1) :
                        /\ log[j].ev = "mkdir"
                        /\ log[j].path = OutDir(Split(log[i].arg))
                 \/ OutDir(Split(log[i].arg)) \in DOMAIN disk0
    /\ LastEvents(<<"walk">>) => IsDir(disk, OutDir(Split(LastArg)))
    /\ \A i \in EntryEvents :
          \A a \in Ancestors(Split(log[i].arg)) : ~ShouldCopy(Join(a))
    /\ LastEvents(<<"copytree">>) =>
          /\ ShouldCopy(LastArg)
          /\ \A t \in DOMAIN tmpl :
                IsPrefix(Split(LastArg), t) =>
                    LET q == LastPath \o SubSeq(t, Len(Split(LastArg)) + 1, Len(t))
                    IN q \in DOMAIN disk /\ disk[q] = EntryOf(tmpl[t])

C16_Witness ==
    /\ Returned
    /\ \E i \in LogEvents({"copytree"}) : log[i].arg = <<"d">>
    /\ \E i \in LogEvents({"walk"}) : log[i].arg = TmplY
    /\ Proj \o <<<<"d">>, <<"h">>>> \in DOMAIN disk
    /\ disk[Proj \o <<<<"d">>, <<"h">>>>].content = <<"h", "{{", "y", "}}">>
    /\ \A i \in 1..Len(log) : log[i].arg # <<"d", "/", "h">>

(***************************************************************************)
(* C17: when the walk hands a render-eligible file to generate_file and    *)
(* its rendered output path is an existing directory, or exists while      *)
(* skip_if_file_exists is set, the step raises nothing, leaves the whole   *)
(* output file system (content and mode of the target included) as it      *)
(* was, and moves on to the next file, whatever the template content is:   *)
(* the content is not rendered, so a fault in it goes unnoticed.           *)
(***************************************************************************)
NextInfile == Join(root \o <<Head(files)>>)
NextOutfile == project_dir \o Split(Render(NextInfile, RenderNs).val)
SkipCase ==
    /\ pc = "walk" /\ copy_dirs = <<>> /\ dirs = <<>> /\ files # <<>>
    /\ ~ShouldCopy(NextInfile)
    /\ Render(NextInfile, RenderNs).kind = "ok"
    /\ \/ IsDir(disk, NextOutfile)
       \/ (o.skip_if_file_exists /\ NextOutfile \in DOMAIN disk)

C17_SkipLeavesTargetAlone ==
    [][SkipCase =>
          /\ disk' = disk
          /\ pc' = "walk"
          /\ exc' = exc
          /\ files' = Tail(files)
          /\ log' = log \o <<Ev("skip", NextInfile, NextOutfile)>>]_vars

C17_Witness ==
    /\ LastEvents(<<"skip">>)
    /\ pc = "walk"
    /\ o.skip_if_file_exists
    /\ LastArg = TmplY \o <<"f">>
    /\ Faulty(tmpl[Split(LastArg)].content)
    /\ disk[LastPath].content = <<"a", "b">>

(***************************************************************************)
(* C18: a second run with skip_if_file_exists set, over the output of a    *)
(* first run that returned, does not fail, writes to no file the first run *)
(* wrote (generated, copied as a copy-only file, or copied inside a        *)
(* copy-only directory), and leaves each of them as the first run left it. *)
(***************************************************************************)
Rerunning == LogEvents({"rerun"}) # {}
RerunAt == CHOOSE i \in LogEvents({"rerun"}) : TRUE
FirstRunWrote ==
    {log[i].path : i \in {k \in FileWrites : k < RerunAt}}
    \cup {q \in DOMAIN disk0 :
            /\ disk0[q].type = "file"
            /\ \E i \in LogEvents({"copytree"}) :
                  i < RerunAt /\ IsPrefix(log[i].path, q)}
SecondRunWrites ==
    {i \in LogEvents({"write", "copyfile", "copytree"}) : i > RerunAt}

C18_SecondRunWritesNothing ==
    Rerunning =>
        /\ ~Failed
        /\ \A i \in SecondRunWrites :
              \A q \in FirstRunWrote : ~IsPrefix(log[i].path, q)
        /\ \A q \in FirstRunWrote : q \in DOMAIN disk /\ disk[q] = disk0[q]

(***************************************************************************)
(* Output-path collisions.  FileEvents are the events that close the       *)
(* handling of one template file; Produced is what a write of that file    *)
(* puts on disk.                                                           *)
(***************************************************************************)
FileEvents == LogEvents({"write", "copyfile", "skip"})
EventsOn(p) == {i \in FileEvents : log[i].path = p}
WritersOn(p) == {i \in FileWrites : log[i].path = p}
Collides(p) ==
    /\ p \in DOMAIN disk /\ disk[p].type = "file"
    /\ p \notin DOMAIN disk0
    /\ Cardinality({log[i].arg : i \in EventsOn(p)}) >= 2
MinOf(S) == CHOOSE i \in S : \A j \in S : i <= j
MaxOf(S) == CHOOSE i \in S : \A j \in S : j <= i
Produced(infile) ==
    LET node == tmpl[Split(infile)]
    IN IF ShouldCopy(infile) \/ node.binary THEN node.content
       ELSE Render(node.content, RenderNs).val
PosIn(seq, x) == CHOOSE i \in 1..Len(seq) : seq[i] = x
ListedBefore(a, b) ==
    LET ta == Split(a)
        tb == Split(b)
    IN Parent(ta) = Parent(tb) =>
          PosIn(tmpl[Parent(ta)].files, ta[Len(ta)])
              <= PosIn(tmpl[Parent(tb)].files, tb[Len(tb)])
InTraversalOrder ==
    \A i, j \in FileEvents : i < j => ListedBefore(log[i].arg, log[j].arg)

(***************************************************************************)
(* C19: files are handled in traversal order, and when two template files  *)
(* of one run render to the same output path the final content at that     *)
(* path is the one produced from the file that comes first.                *)
(***************************************************************************)
C19_FirstWriteWins ==
    /\ InTraversalOrder
    /\ \A p \in DOMAIN disk :
          Collides(p) => disk[p].content = Produced(log[MinOf(EventsOn(p))].arg)

(***************************************************************************)
(* C19, amended: files are handled in traversal order, and at a path two   *)
(* template files render to, the content is the one produced by the last   *)
(* write; without skip_if_file_exists every colliding file writes, so the  *)
(* file that comes last wins, and with skip_if_file_exists a file sent to  *)
(* generate_file never writes over an earlier one, so among render-        *)
(* eligible files the first wins.                                          *)
(***************************************************************************)
C19_LastWriteWinsUnlessSkip ==
    /\ InTraversalOrder
    /\ \A p \in DOMAIN disk :
          Collides(p) =>
              /\ WritersOn(p) # {}
              /\ disk[p].content = Produced(log[MaxOf(WritersOn(p))].arg)
              /\ ~o.skip_if_file_exists =>
                    /\ EventsOn(p) = WritersOn(p)
                    /\ disk[p].content = Produced(log[MaxOf(EventsOn(p))].arg)
              /\ (o.skip_if_file_exists
                  /\ \A i \in EventsOn(p) : ~ShouldCopy(log[i].arg)) =>
                    /\ WritersOn(p) = {MinOf(EventsOn(p))}
                    /\ disk[p].content = Produced(log[MinOf(EventsOn(p))].arg)

C19_Witness ==
    /\ Returned /\ ~o.skip_if_file_exists
    /\ Collides(Proj \o <<<<"a", "f">>>>)
    /\ Cardinality(WritersOn(Proj \o <<<<"a", "f">>>>)) = 2
    /\ CopyPatterns = {}
    /\ disk[Proj \o <<<<"a", "f">>>>].content = <<"h", "a">>

(***************************************************************************)
(* C20: whenever generate_files fails on an undefined variable, the error  *)
(* raised is UndefinedVariableInTemplate, it wraps the UndefinedError, it  *)
(* names the entry whose rendering failed (the template root, the          *)
(* directory or the file at the head of the work lists), and when the run  *)
(* created the project directory, the directory has been removed by the    *)
(* time the error is raised.                                               *)
(***************************************************************************)
FailedEntry ==
    IF ~RootRendered THEN <<template_dir>>
    ELSE IF copy_dirs # <<>> THEN project_dir \o root \o <<Head(copy_dirs)>>
    ELSE IF dirs # <<>> THEN project_dir \o root \o <<Head(dirs)>>
    ELSE root \o <<Head(files)>>

C20_UndefinedAlwaysConsolidated ==
    (Failed /\ UndefinedRaised) =>
        /\ exc.type = "UndefinedVariableInTemplate"
        /\ exc.cause = "UndefinedError"
        /\ exc.path = FailedEntry
        /\ (RootRendered /\ delete_project_on_failure) =>
              /\ ProjectGone
              /\ LastEvents(<<"rmtree">>)

(***************************************************************************)
(* C21: every write of a file (binary copy, rendered text, copy-only copy) *)
(* is followed at once by the copy of the mode, after which the output     *)
(* file has the mode of its input file; in every state a file on disk      *)
(* whose last handling was a write has the mode of the input file of that  *)
(* write; and a pre-existing file that was only ever skipped still has     *)
(* the entry, mode included, it had before the run.                        *)
(***************************************************************************)
C21_ModePreserved ==
    /\ \A i \in FileWrites :
          /\ i < Len(log)
          /\ log[i + 1].ev = "copymode"
          /\ log[i + 1].arg = log[i].arg
          /\ log[i + 1].path = log[i].path
    /\ \A i \in LogEvents({"copymode"}) :
          i > 1 /\ (i - 1) \in FileWrites
    /\ LastEvents(<<"copymode">>) =>
          /\ LastPath \in DOMAIN disk
          /\ disk[LastPath].mode = tmpl[Split(LastArg)].mode
    /\ \A p \in DOMAIN disk :
          WritersOn(p) # {} =>
              disk[p].mode = tmpl[Split(log[MaxOf(WritersOn(p))].arg)].mode
    /\ \A i \in LogEvents({"skip"}) :
          (log[i].path \in DOMAIN disk0 /\ log[i].path \in DOMAIN disk
           /\ WritersOn(log[i].path) = {})
              => disk[log[i].path] = disk0[log[i].path]

C21_Witness ==
    /\ Returned
    /\ disk0 = PreDisk
    /\ \E i \in LogEvents({"write"}) :
          /\ log[i].path = Proj \o <<<<"f">>>>
          /\ disk[log[i].path].mode = 493
          /\ disk0[log[i].path].mode = 384
    /\ \E i \in LogEvents({"copy_only"}) : disk[log[i].path].mode = 420

(***************************************************************************)
(* C22: once ListdirOperator.execute has returned, a string path gave a    *)
(* list holding the directory's entries and a list path gave a map from    *)
(* each given path to its entries; with ignore_hidden_files set no         *)
(* returned entry starts with "."; with sort set every returned listing    *)
(* is in ascending order.                                                  *)
(***************************************************************************)
ReturnedListings ==
    IF listdir_ret.kind = "list" THEN {listdir_ret.files}
    ELSE {listdir_ret.contents[d] : d \in DOMAIN listdir_ret.contents}
IsAscending(l) == \A i, j \in 1..Len(l) : i < j => ~StrLess(l[j], l[i])

C22_ListdirHidesAndSorts ==
    listdir_ret # NotExecuted =>
        /\ listdir_self.path.kind = "str" =>
              /\ listdir_ret.kind = "list"
              /\ SeqRange(listdir_ret.files)
                     \subseteq SeqRange(listdir_fs[listdir_self.path.str])
        /\ listdir_self.path.kind = "list" =>
              /\ listdir_ret.kind = "dict"
              /\ DOMAIN listdir_ret.contents = SeqRange(listdir_self.path.list)
        /\ listdir_self.ignore_hidden_files =>
              \A l \in ReturnedListings : \A i \in 1..Len(l) : Head(l[i]) # "."
        /\ listdir_self.sort => \A l \in ReturnedListings : IsAscending(l)

(***************************************************************************)
(* C23: when rendering the output path of a copy-only directory or of a    *)
(* copy-only file fails on an undefined variable, the project directory    *)
(* is gone if this run created it, and the error raised is the             *)
(* UndefinedVariableInTemplate that names the entry.                       *)
(***************************************************************************)
FailedAtCopyOnlyFile == FailedAtFile /\ ShouldCopy(NextInfile)

C23_CopyOnlyUndefinedHandled ==
    (UndefinedRaised /\ (FailedAtCopyDir \/ FailedAtCopyOnlyFile)) =>
        /\ exc.type = "UndefinedVariableInTemplate"
        /\ exc.path = FailedEntry
        /\ CreatedByRun => ProjectGone

(***************************************************************************)
(* C24: whatever the configured context key, the patterns the walk         *)
(* consults are those stored under c.context_key: an entry whose path      *)
(* matches one of them is never visited, made, written or skipped as a     *)
(* render-eligible entry, and every entry copied without rendering         *)
(* matches one of them.                                                    *)
(***************************************************************************)
KeyPatterns ==
    IF "_copy_without_render" \in DOMAIN c.input_dict[c.context_key]
    THEN SeqRange(c.input_dict[c.context_key]["_copy_without_render"])
    ELSE {}
ShouldCopyUnderKey(path) == \E p \in KeyPatterns : GlobMatches(path, p)

C24_PatternsReadUnderContextKey ==
    /\ \A i \in EntryEvents :
          (log[i].ev \in {"walk", "mkdir", "write", "skip"} /\ log[i].arg # <<>>)
              => ~ShouldCopyUnderKey(log[i].arg)
    /\ \A i \in LogEvents({"copy_only", "copytree"}) : ShouldCopyUnderKey(log[i].arg)

(***************************************************************************)
(* C25: when the name of the template root refers to an undefined          *)
(* variable, the run never gets past rendering the root: no directory is   *)
(* made, no hook runs, nothing is written or deleted, and the failure is   *)
(* the UndefinedVariableInTemplate that names the unrendered root and      *)
(* wraps the UndefinedError.                                               *)
(***************************************************************************)
RootNameUndefined ==
    /\ HasTemplate
    /\ Render(template_dir, RenderNs).kind = "UndefinedError"

C25_RootUndefinedFailsClean ==
    RootNameUndefined =>
        /\ pc \in {"start", "ensure", "render_root", "raised"}
        /\ project_dir = <<>>
        /\ disk = disk0
        /\ log = <<>>
        /\ Failed =>
              /\ exc.type = "UndefinedVariableInTemplate"
              /\ exc.msg = "Unable to create project directory"
              /\ exc.path = <<template_dir>>
              /\ exc.cause = "UndefinedError"

C25_Witness ==
    /\ RootNameUndefined /\ Failed
    /\ exc.type = "UndefinedVariableInTemplate"
    /\ o.accept_hooks
    /\ disk0 = PreDisk /\ disk = PreDisk

(***************************************************************************)
(* C26: in a run that returned, each operator of c.post_gen_hooks was      *)
(* executed exactly once, after the post_gen_project hook, and the name o  *)
(* still denotes the run's Output object.                                  *)
(***************************************************************************)
ExecutionsOf(h) == {i \in LogEvents({"execute"}) : log[i].arg = <<h>>}

C26_DeferredOperatorsExecuted ==
    Returned =>
        /\ \A h \in SeqRange(c.post_gen_hooks) :
              /\ Cardinality(ExecutionsOf(h)) = 1
              /\ \A i \in ExecutionsOf(h) :
                    \A j \in HookAt("post_gen_project") : j < i
        /\ o_name = "Output"

====
